---- MODULE Spec2Model ----
(***************************************************************************)
(* Model of the daily-report normaliser:                                   *)
(*   src/backup_normalize_daily_reports.py  (the complete pipeline)        *)
(*   src/normalize_daily_reports.py         (the second variant of the     *)
(*                                           helper functions)             *)
(*                                                                         *)
(* Text is a sequence of one-character strings, so that strip, upper,      *)
(* endswith, replace and float() are computed, not assumed.  "NBSP" stands *)
(* for the single character U+00A0.  A float is an integer number of       *)
(* hundred-thousandths (Scale), exact for every value the bounded inputs   *)
(* can denote.  A calendar date is the integer yyyymmdd, NaT is 0.         *)
(***************************************************************************)
EXTENDS Integers, Sequences, FiniteSets, TLC

VARIABLES
    pc,               \* position of the running program
    files,            \* main: args.files, each with the grid its loader reads
    i,                \* main: index of the file the loop is at (1-based)
    frames,           \* main: frames
    master,           \* main: rows of the master table
    written,          \* main: master.to_csv(args.out) has happened
    df,               \* normalize_file: the raw grid of the file last read
    hdr,              \* result of find_date_header_row (backup variant)
    hdr_nd,           \* result of find_date_header_row (normalize_daily_reports)
    col2date,         \* normalize_file: col2date
    records,          \* normalize_file: records
    origin,           \* history: origin[k] = <<row, col>> of the cell behind records[k]
    current_section,  \* normalize_file: current_section
    x,                \* parse_number: the argument
    num,              \* parse_number result (backup variant)
    num_nd            \* parse_number result (normalize_daily_reports)

vars == <<pc, files, i, frames, master, written, df, hdr, hdr_nd, col2date,
          records, origin, current_section, x, num, num_nd>>

-----------------------------------------------------------------------------
(* Bounds of the model *)

MaxLen == 3

Scale == 100 * 1000

-----------------------------------------------------------------------------
(* Text *)

Digits == {"0", "1", "2", "3", "4", "5", "6", "7", "8", "9"}

DigitVal(c) ==
    CASE c = "0" -> 0 [] c = "1" -> 1 [] c = "2" -> 2 [] c = "3" -> 3
      [] c = "4" -> 4 [] c = "5" -> 5 [] c = "6" -> 6 [] c = "7" -> 7
      [] c = "8" -> 8 [] c = "9" -> 9

DigitChar(d) ==
    CASE d = 0 -> "0" [] d = 1 -> "1" [] d = 2 -> "2" [] d = 3 -> "3"
      [] d = 4 -> "4" [] d = 5 -> "5" [] d = 6 -> "6" [] d = 7 -> "7"
      [] d = 8 -> "8" [] d = 9 -> "9"

LowerLetters == <<"a","b","c","d","e","f","g","h","i","j","k","l","m",
                  "n","o","p","q","r","s","t","u","v","w","x","y","z">>

UpperLetters == <<"A","B","C","D","E","F","G","H","I","J","K","L","M",
                  "N","O","P","Q","R","S","T","U","V","W","X","Y","Z">>

UpperChar(c) ==
    IF \E k \in 1..26 : LowerLetters[k] = c
    THEN UpperLetters[CHOOSE k \in 1..26 : LowerLetters[k] = c]
    ELSE c

LowerChar(c) ==
    IF \E k \in 1..26 : UpperLetters[k] = c
    THEN LowerLetters[CHOOSE k \in 1..26 : UpperLetters[k] = c]
    ELSE c

\* str.upper() / str.lower()
Upper(s) == [k \in 1..Len(s) |-> UpperChar(s[k])]

Lower(s) == [k \in 1..Len(s) |-> LowerChar(s[k])]

\* the characters str.strip() and float() treat as white space
IsSpace(c) == c \in {" ", "NBSP"}

RECURSIVE LStrip(_)
LStrip(s) == IF s # <<>> /\ IsSpace(Head(s)) THEN LStrip(Tail(s)) ELSE s

RECURSIVE RStrip(_)
RStrip(s) ==
    IF s # <<>> /\ IsSpace(s[Len(s)]) THEN RStrip(SubSeq(s, 1, Len(s) - 1)) ELSE s

\* str.strip()
Strip(s) == RStrip(LStrip(s))

\* str.endswith(c) for a one-character suffix
EndsWith(s, c) == s # <<>> /\ s[Len(s)] = c

\* s[:-1]
DropLast(s) == SubSeq(s, 1, Len(s) - 1)

\* str.replace(c, "")
Remove(s, c) == SelectSeq(s, LAMBDA ch : ch # c)

\* str.replace(a, b) for one-character a and b
Replace(s, a, b) == [k \in 1..Len(s) |-> IF s[k] = a THEN b ELSE s[k]]

RECURSIVE NatOf(_)
\* the value of a run of decimal digits (0 for the empty run)
NatOf(s) ==
    IF s = <<>> THEN 0 ELSE 10 * NatOf(DropLast(s)) + DigitVal(s[Len(s)])

RECURSIVE Pow10(_)
Pow10(n) == IF n = 0 THEN 1 ELSE 10 * Pow10(n - 1)

RECURSIVE NatStr(_)
\* str(n) for n >= 0
NatStr(n) ==
    IF n < 10 THEN <<DigitChar(n)>> ELSE NatStr(n \div 10) \o <<DigitChar(n % 10)>>

-----------------------------------------------------------------------------
(* Cell values of a raw grid (dtype=object): text, int, float, NaN, None,  *)
(* or a date-time read from a spreadsheet.                                 *)

StrCell(s) == [t |-> "str", s |-> s, n |-> 0]

IntCell(n) == [t |-> "int", s |-> <<>>, n |-> n]

\* f is the value in units of 1/Scale
FloatCell(f) == [t |-> "float", s |-> <<>>, n |-> f]

\* d is yyyymmdd; the time of day is 00:00:00
TsCell(d) == [t |-> "ts", s |-> <<>>, n |-> d]

NaN == [t |-> "nan", s |-> <<>>, n |-> 0]

None == [t |-> "none", s |-> <<>>, n |-> 0]

\* zero-padded decimal of width w
Pad(n, w) == [k \in 1..w |-> DigitChar((n \div Pow10(w - k)) % 10)]

RECURSIVE DropZeros(_)
DropZeros(s) ==
    IF Len(s) > 1 /\ s[Len(s)] = "0" THEN DropZeros(DropLast(s)) ELSE s

\* str(float) in positional notation (|value| in [0.0001, 1e16) or zero)
FloatStr(f) ==
    LET a == IF f < 0 THEN -f ELSE f
    IN  (IF f < 0 THEN <<"-">> ELSE <<>>)
        \o NatStr(a \div Scale) \o <<".">> \o DropZeros(Pad(a % Scale, 5))

\* str(datetime): "yyyy-mm-dd 00:00:00"
TsStr(d) ==
    Pad(d \div 10000, 4) \o <<"-">> \o Pad((d \div 100) % 100, 2) \o <<"-">>
    \o Pad(d % 100, 2) \o <<" ", "0", "0", ":", "0", "0", ":", "0", "0">>

\* str(v)
PyStr(v) ==
    CASE v.t = "str"   -> v.s
      [] v.t = "int"   -> IF v.n < 0 THEN <<"-">> \o NatStr(-v.n) ELSE NatStr(v.n)
      [] v.t = "float" -> FloatStr(v.n)
      [] v.t = "ts"    -> TsStr(v.n)
      [] v.t = "nan"   -> <<"n", "a", "n">>
      [] v.t = "none"  -> <<"N", "o", "n", "e">>

-----------------------------------------------------------------------------
(* float(s) on text made of digits, '.', a sign, white space and letters   *)
(* (no exponent, no underscore): [k |-> "num", v |-> value * Scale],       *)
(* [k |-> "nan"] for a NaN, [k |-> "err"] for ValueError.                  *)

FloatOf(s) ==
    LET b    == Strip(s)
        neg  == b # <<>> /\ b[1] = "-"
        body == IF b # <<>> /\ b[1] \in {"-", "+"} THEN Tail(b) ELSE b
        dots == {k \in 1..Len(body) : body[k] = "."}
        dot  == IF dots = {} THEN Len(body) + 1 ELSE CHOOSE k \in dots : TRUE
        ip   == SubSeq(body, 1, dot - 1)
        fp   == SubSeq(body, dot + 1, Len(body))
        mag  == NatOf(ip) * Scale + (NatOf(fp) * Scale) \div Pow10(Len(fp))
    IN  IF Lower(body) = <<"n", "a", "n">>
        THEN [k |-> "nan", v |-> 0]
        ELSE IF /\ Cardinality(dots) <= 1
                /\ \A k \in 1..Len(body) : body[k] \in Digits \cup {"."}
                /\ Len(ip) + Len(fp) >= 1
             THEN [k |-> "num", v |-> IF neg THEN -mag ELSE mag]
             ELSE [k |-> "err", v |-> 0]

\* (value, is_percent): k = "none" is the value None
NumResult(k, v, pct) == [k |-> k, v |-> v, pct |-> pct]

\* mutant: the '%' is recognised but the value is not divided by 100
parse_number_nodiv(v) ==
    IF v.t \in {"none", "nan"} THEN NumResult("none", 0, FALSE)
    ELSE IF v.t = "int" THEN NumResult("num", v.n * Scale, FALSE)
    ELSE IF v.t = "float" THEN NumResult("num", v.n, FALSE)
    ELSE
    LET s0     == Strip(PyStr(v))
        is_pct == EndsWith(s0, "%")
        s1     == IF is_pct THEN Strip(DropLast(s0)) ELSE s0
        s2     == Replace(Remove(Remove(s1, "NBSP"), " "), ",", ".")
        val    == FloatOf(s2)
    IN  IF s0 = <<>> \/ Lower(s0) \in {<<"n","a","n">>, <<"n","o","n","e">>, <<"-">>}
        THEN NumResult("none", 0, FALSE)
        ELSE IF val.k = "err" THEN NumResult("none", 0, is_pct)
        ELSE NumResult(val.k, val.v, is_pct)

\* parse_number of backup_normalize_daily_reports.py
parse_number(v) ==
    IF v.t \in {"none", "nan"} THEN NumResult("none", 0, FALSE)
    ELSE IF v.t = "int" THEN NumResult("num", v.n * Scale, FALSE)
    ELSE IF v.t = "float" THEN NumResult("num", v.n, FALSE)
    ELSE
    LET s0     == Strip(PyStr(v))
        is_pct == EndsWith(s0, "%")
        s1     == IF is_pct THEN Strip(DropLast(s0)) ELSE s0
        s2     == Replace(Remove(Remove(s1, "NBSP"), " "), ",", ".")
        val    == FloatOf(s2)
    IN  IF s0 = <<>> \/ Lower(s0) \in {<<"n","a","n">>, <<"n","o","n","e">>, <<"-">>}
        THEN NumResult("none", 0, FALSE)
        ELSE IF val.k = "err" THEN NumResult("none", 0, is_pct)
        ELSE NumResult(val.k, IF is_pct THEN val.v \div 100 ELSE val.v, is_pct)

\* parse_number of normalize_daily_reports.py
parse_number_nd(v) ==
    IF v.t = "none" THEN NumResult("none", 0, FALSE)
    ELSE
    LET s       == Strip(PyStr(v))
        is_pct  == EndsWith(s, "%")
        s_clean == Replace(Remove(IF is_pct THEN DropLast(s) ELSE s, "."), ",", ".")
        val     == FloatOf(s_clean)
    IN  IF val.k = "err" THEN NumResult("none", 0, is_pct)
        ELSE NumResult(val.k, IF is_pct THEN val.v \div 100 ELSE val.v, is_pct)

-----------------------------------------------------------------------------
(* Dates.  pd.to_datetime(s, errors="coerce") is modelled on the shapes    *)
(* the grids of this model contain: day/month/year with '/' or '-', ISO    *)
(* year-month-day with an optional time, a bare four-digit year, and text  *)
(* that is no date at all (NaT).                                           *)

NaT == 0

AllDigits(s) == \A k \in 1..Len(s) : s[k] \in Digits

\* the positions of the date separators of s
SepPositions(s) == {k \in 1..Len(s) : s[k] \in {"/", "-"}}

\* the three fields of a text with exactly two separators
DateFields(s) ==
    LET seps == SepPositions(s)
        a    == CHOOSE k \in seps : \A j \in seps : k <= j
        b    == CHOOSE k \in seps : \A j \in seps : k >= j
    IN  <<SubSeq(s, 1, a - 1), SubSeq(s, a + 1, b - 1), SubSeq(s, b + 1, Len(s))>>

\* DATE_RE.match(s) for a stripped s: \d{1,2}[/-]\d{1,2}[/-]\d{2,4}
DATE_RE(s) ==
    /\ Cardinality(SepPositions(s)) = 2
    /\ LET f == DateFields(s)
       IN  /\ \A k \in 1..3 : AllDigits(f[k])
           /\ Len(f[1]) \in 1..2
           /\ Len(f[2]) \in 1..2
           /\ Len(f[3]) \in 2..4

\* the time part of an ISO text: white space, then hh:mm:ss
IsoTime(s) ==
    /\ s # <<>>
    /\ IsSpace(s[1])
    /\ LET u == LStrip(s)
       IN  /\ Len(u) = 8
           /\ u[3] = ":"
           /\ u[6] = ":"
           /\ \A k \in {1, 2, 4, 5, 7, 8} : u[k] \in Digits

\* ISO_RE.match(s): \d{4}-\d{2}-\d{2}(?:\s+\d{2}:\d{2}:\d{2})?
ISO_RE(s) ==
    /\ Len(s) >= 10
    /\ s[5] = "-"
    /\ s[8] = "-"
    /\ \A k \in {1, 2, 3, 4, 6, 7, 9, 10} : s[k] \in Digits
    /\ (Len(s) = 10 \/ IsoTime(SubSeq(s, 11, Len(s))))

DaysIn(y, m) ==
    IF m \in {4, 6, 9, 11} THEN 30
    ELSE IF m = 2
         THEN (IF y % 4 = 0 /\ (y % 100 # 0 \/ y % 400 = 0) THEN 29 ELSE 28)
         ELSE 31

\* a Timestamp for year y, month m, day d, or NaT when there is none
MakeDate(y, m, d) ==
    IF y \in 1678..2261 /\ m \in 1..12 /\ d \in 1..DaysIn(y, m)
    THEN y * 10000 + m * 100 + d
    ELSE NaT

\* a two-digit year is read as 2000-2068 or 1969-1999
FullYear(f) ==
    IF Len(f) = 2
    THEN (IF NatOf(f) < 69 THEN 2000 + NatOf(f) ELSE 1900 + NatOf(f))
    ELSE NatOf(f)

\* pd.to_datetime(s, dayfirst=dayfirst, errors="coerce") for a stripped s
ToDatetime(s, dayfirst) ==
    IF ISO_RE(s)
    THEN MakeDate(NatOf(SubSeq(s, 1, 4)), NatOf(SubSeq(s, 6, 7)), NatOf(SubSeq(s, 9, 10)))
    ELSE IF DATE_RE(s)
    THEN LET f == DateFields(s)
         IN  IF dayfirst
             THEN MakeDate(FullYear(f[3]), NatOf(f[2]), NatOf(f[1]))
             ELSE MakeDate(FullYear(f[3]), NatOf(f[1]), NatOf(f[2]))
    ELSE IF Len(s) = 4 /\ AllDigits(s) /\ s[1] # "0"
    THEN MakeDate(NatOf(s), 1, 1)
    ELSE NaT

YearOf(d) == d \div 10000

\* is_date_like of backup_normalize_daily_reports.py
is_date_like(v) ==
    IF v.t \in {"none", "nan"} THEN FALSE
    ELSE IF v.t = "ts" THEN TRUE
    ELSE LET s == Strip(PyStr(v))
             d == ToDatetime(s, TRUE)
         IN  s # <<>> /\ d # NaT /\ YearOf(d) >= 1900 /\ YearOf(d) <= 2100

\* is_date_like of normalize_daily_reports.py
is_date_like_nd(v) ==
    IF v.t \in {"none", "nan"} THEN FALSE ELSE DATE_RE(Strip(PyStr(v)))

\* parse_date of backup_normalize_daily_reports.py (normalized to the day)
parse_date(v) ==
    LET s == Strip(PyStr(v))
    IN  IF s = <<>> THEN NaT
        ELSE IF ISO_RE(s) THEN ToDatetime(s, FALSE)
        ELSE ToDatetime(s, TRUE)

-----------------------------------------------------------------------------
(* The header locator.  Rows and columns are numbered from 0 as in the     *)
(* source; a grid is a sequence of rows of equal length.                   *)

NoHeader == [row |-> -1, first |-> -1, last |-> -1, total |-> -1]

NRows(g) == Len(g)

NCols(g) == IF g = <<>> THEN 0 ELSE Len(g[1])

\* df.iat[r, c]
At(g, r, c) == g[r + 1][c + 1]

SetMin(S) == CHOOSE m \in S : \A k \in S : m <= k

SetMax(S) == CHOOSE m \in S : \A k \in S : m >= k

DateThreshold == 3

DateThresholdNd == 5

\* isinstance(v, str) and v.strip().upper() in {"TOTAL", "TOTAL "}
IsTotalCell(v) ==
    v.t = "str" /\ Upper(Strip(v.s)) \in {<<"T","O","T","A","L">>, <<"T","O","T","A","L"," ">>}

\* isinstance(v, str) and v.strip().upper() == "TOTAL"
IsTotalCellNd(v) ==
    v.t = "str" /\ Upper(Strip(v.s)) = <<"T","O","T","A","L">>

RECURSIVE FindTotal(_, _, _)
\* the scan for c in range(c, len(row)) of the backup variant
FindTotal(g, r, c) ==
    IF c >= NCols(g) THEN -1
    ELSE IF IsTotalCell(At(g, r, c)) THEN c
    ELSE FindTotal(g, r, c + 1)

RECURSIVE FindTotalNd(_, _, _)
FindTotalNd(g, r, c) ==
    IF c >= NCols(g) THEN -1
    ELSE IF IsTotalCellNd(At(g, r, c)) THEN c
    ELSE FindTotalNd(g, r, c + 1)

\* date_cols = [c for c, v in enumerate(row) if is_date_like(v)]
DateCols(g, r) == {c \in 0..(NCols(g) - 1) : is_date_like(At(g, r, c))}

DateColsNd(g, r) == {c \in 0..(NCols(g) - 1) : is_date_like_nd(At(g, r, c))}

RECURSIVE ScanRows(_, _)
\* the loop for r in range(r, len(df)) of the backup variant
ScanRows(g, r) ==
    IF r >= NRows(g) THEN NoHeader
    ELSE LET dc == DateCols(g, r)
         IN  IF Cardinality(dc) >= DateThreshold
             THEN [row |-> r, first |-> SetMin(dc), last |-> SetMax(dc),
                   total |-> FindTotal(g, r, SetMax(dc) + 1)]
             ELSE ScanRows(g, r + 1)

RECURSIVE ScanRowsNd(_, _)
ScanRowsNd(g, r) ==
    IF r >= NRows(g) THEN NoHeader
    ELSE LET dc == DateColsNd(g, r)
         IN  IF Cardinality(dc) >= DateThresholdNd
             THEN [row |-> r, first |-> SetMin(dc), last |-> SetMax(dc),
                   total |-> FindTotalNd(g, r, SetMax(dc) + 1)]
             ELSE ScanRowsNd(g, r + 1)

\* mutant: the row with the most date-like cells (the docstring's wording)
\* instead of the first row that reaches the threshold
find_date_header_row_most(g) ==
    LET Q == {r \in 0..(NRows(g) - 1) : Cardinality(DateCols(g, r)) >= DateThreshold}
        b == CHOOSE r \in Q : \A q \in Q :
                 \/ Cardinality(DateCols(g, r)) > Cardinality(DateCols(g, q))
                 \/ (Cardinality(DateCols(g, r)) = Cardinality(DateCols(g, q)) /\ r <= q)
    IN  IF Q = {} THEN NoHeader
        ELSE [row |-> b, first |-> SetMin(DateCols(g, b)), last |-> SetMax(DateCols(g, b)),
              total |-> FindTotal(g, b, SetMax(DateCols(g, b)) + 1)]

\* find_date_header_row of backup_normalize_daily_reports.py
find_date_header_row(g) == ScanRows(g, 0)

\* find_date_header_row of normalize_daily_reports.py
find_date_header_row_nd(g) == ScanRowsNd(g, 0)

-----------------------------------------------------------------------------
(* normalize_file of backup_normalize_daily_reports.py.  An optional value *)
(* (None or a value) is the empty sequence or a one-element sequence.      *)

\* SECTION_SYNONYMS: <<label, canonical name>>
SECTION_SYNONYMS ==
    {<<<<"R","E","S","T","A","U","R","A","N","T","E">>, "RESTAURANT">>,
     <<<<"R","E","S","T","A","U","R","A","N","T">>, "RESTAURANT">>,
     <<<<"B","A","R">>, "BAR">>,
     <<<<"B","E","R">>, "BAR">>,
     <<<<"B","O","D","A">>, "BANQUETING">>,
     <<<<"B","E","N","Q","U","E","T","I","N","G">>, "BANQUETING">>,
     <<<<"B","A","N","Q","U","E","T","I","N","G">>, "BANQUETING">>,
     <<<<"E","M","P","R","E","S","A">>, "MICE">>,
     <<<<"M","I","C","E">>, "MICE">>,
     <<<<"P","A","R","T","I","C","U","L","A","R">>, "INDIVIDUALS">>,
     <<<<"I","N","D","I","V","I","D","U","A","L","S">>, "INDIVIDUALS">>,
     <<<<"T","I","E","N","D","A"," ","R","E","S","T","A","U","R","A","N","T","E"," ","4","3">>, "SHOP">>,
     <<<<"S","H","O","P">>, "SHOP">>,
     <<<<"W","A","L","K"," ","I","N">>, "WALKIN">>,
     <<<<"W","A","L","K","I","N">>, "WALKIN">>,
     <<<<"I","N","T","E","R","N","O">>, "EMPLOYEES">>,
     <<<<"E","M","P","L","E","A","D","O","S">>, "EMPLOYEES">>,
     <<<<"E","m","p","l","e","a","d","o","s">>, "EMPLOYEES">>}

\* up in SECTION_SYNONYMS
InSynonyms(up) == \E e \in SECTION_SYNONYMS : e[1] = up

\* SECTION_SYNONYMS[up]
Canonical(up) == (CHOOSE e \in SECTION_SYNONYMS : e[1] = up)[2]

\* the column order of every output table
Cols == <<"source_file", "section", "metric_label", "date", "value_raw", "value_num",
          "is_percent", "is_total">>

\* mutant: the loop stops at the first header cell that is no date
Col2Date_break(g, h) ==
    LET bad  == {c \in h.first..h.last : parse_date(At(g, h.row, c)) = NaT}
        stop == IF bad = {} THEN h.last + 1 ELSE SetMin(bad)
    IN  [c \in h.first..(stop - 1) |-> parse_date(At(g, h.row, c))]

\* col2date: the columns of the date span whose header cell parses to a date
Col2Date(g, h) ==
    [c \in {k \in h.first..h.last : parse_date(At(g, h.row, k)) # NaT}
        |-> parse_date(At(g, h.row, c))]

RECURSIVE LabelScan(_, _, _, _, _)
\* for c in range(c, first_c): the label is overwritten by every later text
LabelScan(g, r, c, first, label) ==
    IF c >= first THEN label
    ELSE LET v == At(g, r, c)
         IN  LabelScan(g, r, c + 1, first,
                       IF v.t = "str" /\ Strip(v.s) # <<>> THEN <<Strip(v.s)>> ELSE label)

RECURSIVE LabelScanFirst(_, _, _, _, _)
\* mutant helper: the label is the first text and is never overwritten
LabelScanFirst(g, r, c, first, label) ==
    IF c >= first THEN label
    ELSE LET v == At(g, r, c)
         IN  LabelScanFirst(g, r, c + 1, first,
                            IF label = <<>> /\ v.t = "str" /\ Strip(v.s) # <<>>
                            THEN <<Strip(v.s)>> ELSE label)

\* mutant: the left-most text cell instead of the last one
RowLabel_leftmost(g, r, first) == LabelScanFirst(g, r, 0, first, <<>>)

\* the row's label: the last non-empty text cell left of the first date column
RowLabel(g, r, first) == LabelScan(g, r, 0, first, <<>>)

\* the section in force after a row with this label
NextSection(section, label) ==
    IF label # <<>> /\ InSynonyms(Upper(label[1]))
    THEN <<Canonical(Upper(label[1]))>>
    ELSE section

\* metric_label of the row
MetricLabel(label) ==
    IF label # <<>> /\ ~InSynonyms(Upper(label[1])) THEN label ELSE <<>>

\* one output record
Rec(name, section, metric, date, raw, pn, is_total) ==
    [source_file |-> name, section |-> section, metric_label |-> metric,
     date |-> date, value_raw |-> raw, value_num |-> [k |-> pn.k, v |-> pn.v],
     is_percent |-> pn.pct, is_total |-> is_total]

\* v is None or NaN, or its text is blank
Skipped(v) == v.t \in {"none", "nan"} \/ Strip(PyStr(v)) = <<>>

RECURSIVE DailyScan(_, _, _, _, _, _, _, _)
\* for c, d in col2date.items(), from column c on: each emitted record with
\* the cell it comes from
DailyScan(name, g, r, c, h, c2d, section, metric) ==
    IF c > h.last THEN <<>>
    ELSE LET v == At(g, r, c)
         IN  (IF c \in DOMAIN c2d /\ ~Skipped(v) /\ ~is_date_like(v)
              THEN <<[rec |-> Rec(name, section, metric, c2d[c], Strip(PyStr(v)),
                                  parse_number(StrCell(Strip(PyStr(v)))), FALSE),
                      at |-> <<r, c>>]>>
              ELSE <<>>)
             \o DailyScan(name, g, r, c + 1, h, c2d, section, metric)

RECURSIVE DailyScanAll(_, _, _, _, _, _, _, _)
\* mutant helper: DailyScan without the is_date_like test on the cell
DailyScanAll(name, g, r, c, h, c2d, section, metric) ==
    IF c > h.last THEN <<>>
    ELSE LET v == At(g, r, c)
         IN  (IF c \in DOMAIN c2d /\ ~Skipped(v)
              THEN <<[rec |-> Rec(name, section, metric, c2d[c], Strip(PyStr(v)),
                                  parse_number(StrCell(Strip(PyStr(v)))), FALSE),
                      at |-> <<r, c>>]>>
              ELSE <<>>)
             \o DailyScanAll(name, g, r, c + 1, h, c2d, section, metric)

\* mutant: a restated date in a data cell is not skipped
DailyRecords_nodateskip(name, g, r, h, c2d, section, metric) ==
    DailyScanAll(name, g, r, h.first, h, c2d, section, metric)

\* the dated records of row r
DailyRecords(name, g, r, h, c2d, section, metric) ==
    DailyScan(name, g, r, h.first, h, c2d, section, metric)

\* mutant: a total that is not a number is dropped
TotalRecords_numeric(name, g, r, h, section, metric) ==
    IF h.total # -1 /\ h.total < NCols(g) /\ ~Skipped(At(g, r, h.total))
       /\ parse_number(StrCell(Strip(PyStr(At(g, r, h.total))))).k = "num"
    THEN <<[rec |-> Rec(name, section, metric, NaT, Strip(PyStr(At(g, r, h.total))),
                        parse_number(StrCell(Strip(PyStr(At(g, r, h.total))))), TRUE),
            at |-> <<r, h.total>>]>>
    ELSE <<>>

\* the TOTAL record of row r, if any
TotalRecords(name, g, r, h, section, metric) ==
    IF h.total # -1 /\ h.total < NCols(g) /\ ~Skipped(At(g, r, h.total))
    THEN <<[rec |-> Rec(name, section, metric, NaT, Strip(PyStr(At(g, r, h.total))),
                        parse_number(StrCell(Strip(PyStr(At(g, r, h.total))))), TRUE),
            at |-> <<r, h.total>>]>>
    ELSE <<>>

\* the records one turn of the row loop appends, section being the section
\* in force before the row
RowRecords(name, g, r, h, c2d, section) ==
    LET label  == RowLabel(g, r, h.first)
        sec    == NextSection(section, label)
        metric == MetricLabel(label)
    IN  DailyRecords(name, g, r, h, c2d, sec, metric)
        \o TotalRecords(name, g, r, h, sec, metric)

RECURSIVE RowLoop(_, _, _, _, _, _, _)
\* for r in range(r, len(df)): acc is records so far, section is
\* current_section; the result is both after the last row
RowLoop(name, g, r, h, c2d, section, acc) ==
    IF r >= NRows(g) THEN [out |-> acc, section |-> section]
    ELSE RowLoop(name, g, r + 1, h, c2d,
                 NextSection(section, RowLabel(g, r, h.first)),
                 acc \o RowRecords(name, g, r, h, c2d, section))

\* mutant: the section is module-level state that survives from file to file
InitialSection_carried(previous) == previous

\* current_section = None at the start of every call
InitialSection(previous) == <<>>

SupportedSuffixes == {".xlsx", ".xlsm", ".xls", ".csv"}

\* what a call that raises leaves behind: no record
Raised(exception, g, previous) ==
    [raised |-> exception, df |-> g, hdr |-> NoHeader, col2date |-> <<>>,
     records |-> <<>>, origin |-> <<>>, section |-> previous]

\* what a call that returns leaves behind: out holds records
Returned(g, h, c2d, run) ==
    [raised |-> "", df |-> g, hdr |-> h, col2date |-> c2d,
     records |-> [k \in 1..Len(run.out) |-> run.out[k].rec],
     origin |-> [k \in 1..Len(run.out) |-> run.out[k].at],
     section |-> run.section]

\* normalize_file once the grid g is read and h is the located header
NormalizeGrid(name, g, h, previous) ==
    IF h.row < 0
    THEN Raised("RuntimeError", g, previous)
    ELSE Returned(g, h, Col2Date(g, h),
                  RowLoop(name, g, h.row + 1, h, Col2Date(g, h),
                          InitialSection(previous), <<>>))

\* normalize_file(path): raised is "" on success, else the exception's type
normalize_file(name, file, previous) ==
    IF file.suffix \notin SupportedSuffixes
    THEN Raised("ValueError", <<>>, previous)
    ELSE NormalizeGrid(name, file.df, find_date_header_row(file.df), previous)

\* a table: its columns and its rows
Table(columns, rows) == [columns |-> columns, rows |-> rows]

RECURSIVE Concat(_)
\* pd.concat(frames, ignore_index=True): the rows of the frames in order
Concat(fs) == IF fs = <<>> THEN <<>> ELSE Head(fs).rows \o Concat(Tail(fs))

-----------------------------------------------------------------------------
(* parse_number as a pure function: the argument is drawn from the texts   *)
(* of at most MaxLen characters over NumAlphabet and from a few numeric    *)
(* cells; one step calls both variants on it.                              *)

NumAlphabet == {"1", "5", ".", ",", "%", " ", "NBSP", "-", "a", "n"}

NumTexts == UNION {[1..n -> NumAlphabet] : n \in 0..MaxLen}

NumericCells ==
    {IntCell(0), IntCell(7), IntCell(10), IntCell(-3),
     FloatCell(150000), FloatCell(1000000), FloatCell(25000),
     FloatCell(-250000), FloatCell(0)}

NumInputs == {StrCell(s) : s \in NumTexts} \cup NumericCells \cup {NaN, None}

NoNum == NumResult("none", 0, FALSE)

InitNum ==
    /\ pc = "call"
    /\ x \in NumInputs
    /\ num = NoNum
    /\ num_nd = NoNum
    /\ files = <<>>
    /\ i = 1
    /\ frames = <<>>
    /\ master = <<>>
    /\ written = FALSE
    /\ df = <<>>
    /\ hdr = NoHeader
    /\ hdr_nd = NoHeader
    /\ col2date = <<>>
    /\ records = <<>>
    /\ origin = <<>>
    /\ current_section = <<>>

CallParseNumber ==
    /\ pc = "call"
    /\ pc' = "ret"
    /\ num' = parse_number(x)
    /\ num_nd' = parse_number_nd(x)
    /\ UNCHANGED <<files, i, frames, master, written, df, hdr, hdr_nd, col2date,
                   records, origin, current_section, x>>

NextNum == CallParseNumber

SpecNum == InitNum /\ [][NextNum]_vars

\* the value of a numeric cell, in units of 1/Scale
NumericValue(v) == IF v.t = "int" THEN v.n * Scale ELSE v.n

\* the text left of a trailing '%' after each parser's locale normalisation
Remainder(s) == FloatOf(Replace(Remove(Remove(DropLast(s), "NBSP"), " "), ",", "."))

RemainderNd(s) == FloatOf(Replace(Remove(DropLast(s), "."), ",", "."))

PercentDivides ==
    (x.t = "str" /\ EndsWith(x.s, "%")) =>
        /\ Remainder(x.s).k = "num" =>
              num.k = "num" /\ num.v * 100 = Remainder(x.s).v /\ num.pct
        /\ RemainderNd(x.s).k = "num" =>
              num_nd.k = "num" /\ num_nd.v * 100 = RemainderNd(x.s).v /\ num_nd.pct

\* C9 as stated: a text ending in '%' whose remainder is a number n parses to
\* (n / 100, is_percent = true), and a text that does not end in '%' is never
\* marked as a percentage.
C9_AsStated ==
    pc = "ret" =>
        /\ PercentDivides
        /\ (x.t = "str" /\ ~EndsWith(x.s, "%")) => (~num.pct /\ ~num_nd.pct)

\* C9 amended: a text ending in '%' whose remainder is a number n parses to
\* (n / 100, is_percent = true), and a text whose trimmed form does not end in
\* '%' is never marked as a percentage (the '%' is looked for after trimming).
C9_PercentAfterTrim ==
    pc = "ret" =>
        /\ PercentDivides
        /\ (x.t = "str" /\ ~EndsWith(Strip(x.s), "%")) => (~num.pct /\ ~num_nd.pct)

C9_Witness ==
    /\ pc = "ret"
    /\ x = StrCell(<<"1", "5", "%">>)
    /\ num = NumResult("num", 15000, TRUE)
    /\ num_nd = NumResult("num", 15000, TRUE)

\* C10: an already-numeric argument (an int or a non-NaN float) is returned
\* unchanged with is_percent = false, by both variants of parse_number.
C10_NumericPassThrough ==
    (pc = "ret" /\ x.t \in {"int", "float"}) =>
        /\ num = NumResult("num", NumericValue(x), FALSE)
        /\ num_nd = NumResult("num", NumericValue(x), FALSE)

-----------------------------------------------------------------------------
(* find_date_header_row as a pure function: the grid is drawn from the     *)
(* grids of at most FindMaxRows rows over FindRows; one step calls both    *)
(* variants on it.                                                         *)

FindMaxRows == 2

Txt_TOTAL == <<"T", "O", "T", "A", "L">>

\* the k-th date text "k/1/25" (k a digit)
DateText(k) == <<DigitChar(k), "/", "1", "/", "2", "5">>

\* p leading cells (the text "TOTAL"), k date cells (in a "mixed" row the
\* second one is a date-time value, the others are texts), then a suffix
FindRowRaw(p, k, kind, suffix) ==
    [c \in 1..p |-> StrCell(Txt_TOTAL)]
    \o [c \in 1..k |-> IF kind = "mixed" /\ c = 2 THEN TsCell(20250102)
                       ELSE StrCell(DateText(c))]
    \o (CASE suffix = 0 -> <<>>
          [] suffix = 1 -> <<StrCell(Txt_TOTAL)>>
          [] suffix = 2 -> <<StrCell(<<"x">>), StrCell(<<" ", "t", "o", "t", "a", "l", " ">>),
                             StrCell(Txt_TOTAL)>>)

FindRowsRaw ==
    {FindRowRaw(p, k, kind, suffix) :
        p \in {0, 1}, k \in {2, 3, 5}, kind \in {"str", "mixed"}, suffix \in {0, 1, 2}}

FindWidth == SetMax({Len(r) : r \in FindRowsRaw})

\* a DataFrame is rectangular: short rows end in NaN cells
PadRow(r, w) == [c \in 1..w |-> IF c <= Len(r) THEN r[c] ELSE NaN]

FindRows == {PadRow(r, FindWidth) : r \in FindRowsRaw}

FindGrids == UNION {[1..n -> FindRows] : n \in 0..FindMaxRows}

InitFind ==
    /\ pc = "find"
    /\ df \in FindGrids
    /\ hdr = NoHeader
    /\ hdr_nd = NoHeader
    /\ x = None
    /\ num = NoNum
    /\ num_nd = NoNum
    /\ files = <<>>
    /\ i = 1
    /\ frames = <<>>
    /\ master = <<>>
    /\ written = FALSE
    /\ col2date = <<>>
    /\ records = <<>>
    /\ origin = <<>>
    /\ current_section = <<>>

CallFind ==
    /\ pc = "find"
    /\ pc' = "found"
    /\ hdr' = find_date_header_row(df)
    /\ hdr_nd' = find_date_header_row_nd(df)
    /\ UNCHANGED <<files, i, frames, master, written, df, col2date, records, origin,
                   current_section, x, num, num_nd>>

NextFind == CallFind

SpecFind == InitFind /\ [][NextFind]_vars

\* a text cell that reads "TOTAL" once trimmed and upper-cased
IsTotalText(v) == v.t = "str" /\ Upper(Strip(v.s)) = Txt_TOTAL

\* h is the first row of g with at least T date-like cells, with the span of
\* its date-like cells and the first TOTAL text right of the span
FirstHeader(h, g, T, DateLike(_)) ==
    LET cols(r) == {c \in 0..(NCols(g) - 1) : DateLike(At(g, r, c))}
        Q       == {r \in 0..(NRows(g) - 1) : Cardinality(cols(r)) >= T}
    IN  Q # {} =>
          /\ h.row \in Q
          /\ \A q \in 0..(h.row - 1) : Cardinality(cols(q)) < T
          /\ h.first = SetMin(cols(h.row))
          /\ h.last = SetMax(cols(h.row))
          /\ LET tc == {c \in (h.last + 1)..(NCols(g) - 1) : IsTotalText(At(g, h.row, c))}
             IN  h.total = IF tc = {} THEN -1 ELSE SetMin(tc)

-----------------------------------------------------------------------------
(* main of backup_normalize_daily_reports.py.  The k-th path of the        *)
(* command line is named by the number k; what its loader reads is part of *)
(* the input.  The --peek previews are side files and are not modelled.    *)

MaxRows == 2

MaxFiles == 2

File(suffix, g) == [suffix |-> suffix, df |-> g]

\* header rows over six columns
HeaderA ==
    <<NaN, NaN, StrCell(DateText(1)), StrCell(DateText(2)), StrCell(DateText(3)),
      StrCell(Txt_TOTAL)>>

\* one label column, a gap in the date span, a date-time cell, no TOTAL
HeaderB ==
    <<NaN, StrCell(DateText(1)), StrCell(<<"x">>), TsCell(20250103), StrCell(DateText(4)),
      NaN>>

\* a date outside 1900..2100 inside the span, a lower-case padded TOTAL
HeaderC ==
    <<NaN, StrCell(DateText(1)), StrCell(<<"1", "/", "1", "/", "1", "8", "0", "0">>), StrCell(DateText(3)), StrCell(DateText(4)),
      StrCell(<<" ", "t", "o", "t", "a", "l", " ">>)>>

\* a row above the header with too few dates
Preamble ==
    <<StrCell(<<"I", "n", "f", "o", "r", "m", "e">>), NaN, StrCell(DateText(1)), StrCell(DateText(2)), NaN, NaN>>

HeaderBlocks == {<<HeaderA>>, <<Preamble, HeaderA>>, <<HeaderB>>, <<HeaderC>>}

\* columns 0 and 1 of a data row
LabelPairs ==
    {<<IntCell(7), StrCell(<<" ", " ">>)>>,
     <<StrCell(<<"B", "A", "R">>), NaN>>,
     <<StrCell(<<"R", "e", "s", "t", "a", "u", "r", "a", "n", "t", "e">>), StrCell(<<"C", "O", "M", "I", "D", "A">>)>>,
     <<StrCell(<<"C", "O", "M", "I", "D", "A">>), StrCell(<<" ", "B", "e", "r", " ">>)>>}

\* columns 2 to 5 of a data row
ValueTuples ==
    {<<IntCell(10), NaN, StrCell(<<"1", "2", "%">>), IntCell(30)>>,
     <<NaN, NaN, NaN, StrCell(<<"5">>)>>,
     <<StrCell(<<"a", "b", "c">>), StrCell(DateText(1)), StrCell(<<" ">>), StrCell(<<" ", " ">>)>>,
     <<FloatCell(150000), TsCell(20250105), NaN, StrCell(<<" ", "x", " ">>)>>,
     <<NaN, IntCell(2025), StrCell(<<"a", "b", "c">>), NaN>>,
     <<NaN, NaN, NaN, NaN>>}

\* every label with the plain values and with no value at all, and every
\* value tuple under a metric label
DataRows ==
    {l \o v : l \in LabelPairs,
              v \in {<<IntCell(10), NaN, StrCell(<<"1", "2", "%">>), IntCell(30)>>,
                     <<NaN, NaN, NaN, NaN>>}}
    \cup {<<StrCell(<<"R", "e", "s", "t", "a", "u", "r", "a", "n", "t", "e">>),
            StrCell(<<"C", "O", "M", "I", "D", "A">>)>> \o v : v \in ValueTuples}

\* the grids of a single-file run: a header block and up to MaxRows data rows
RichGrids ==
    {b \o d : b \in HeaderBlocks, d \in UNION {[1..n -> DataRows] : n \in 0..MaxRows}}

\* a grid without any row of three date-like cells
NoHeaderGrid == <<Preamble, <<NaN, NaN, IntCell(10), NaN, StrCell(<<"1", "2", "%">>), IntCell(30)>>>>

TitleRow == <<StrCell(<<"B", "A", "R">>), NaN, NaN, NaN, NaN, NaN>>

MetricRow == <<NaN, StrCell(<<"C", "O", "M", "I", "D", "A">>), IntCell(10), NaN, StrCell(<<"1", "2", "%">>), IntCell(30)>>

PlainRow == <<NaN, NaN, IntCell(10), NaN, StrCell(<<"1", "2", "%">>), IntCell(30)>>

\* the files of a batch of several
BatchFiles ==
    {File(".xlsx", <<HeaderA, TitleRow, MetricRow>>),
     File(".csv", <<HeaderA, PlainRow>>),
     File(".xlsx", <<HeaderA>>),
     File(".xlsx", NoHeaderGrid),
     File(".pdf", <<>>)}

Batches ==
    UNION {[1..n -> BatchFiles] : n \in 0..MaxFiles}
    \cup {<<File(".xlsx", g)>> : g \in RichGrids}

Init ==
    /\ pc = "start"
    /\ files \in Batches
    /\ i = 1
    /\ frames = <<>>
    /\ master = Table(<<>>, <<>>)
    /\ written = FALSE
    /\ df = <<>>
    /\ hdr = NoHeader
    /\ hdr_nd = NoHeader
    /\ col2date = <<>>
    /\ records = <<>>
    /\ origin = <<>>
    /\ current_section = <<>>
    /\ x = None
    /\ num = NoNum
    /\ num_nd = NoNum

\* ap.parse_args(): files has nargs="+", so an empty list is a usage error
ParseArgs ==
    /\ pc = "start"
    /\ pc' = IF files = <<>> THEN "usage_error" ELSE "loop"
    /\ UNCHANGED <<files, i, frames, master, written, df, hdr, hdr_nd, col2date,
                   records, origin, current_section, x, num, num_nd>>

\* the locals of the call that has just ended
CallEnds(res) ==
    /\ df' = res.df
    /\ hdr' = res.hdr
    /\ col2date' = res.col2date
    /\ records' = res.records
    /\ origin' = res.origin
    /\ current_section' = res.section

\* df = normalize_file(...) returns; frames.append(df)
FileReturns(res) ==
    /\ res.raised = ""
    /\ CallEnds(res)
    /\ frames' = Append(frames, Table(Cols, res.records))

\* normalize_file(...) raises
FileRaises(res) ==
    /\ res.raised # ""
    /\ CallEnds(res)

\* one turn of the loop over args.files in which normalize_file returns
NormalizeFileOk ==
    /\ pc = "loop"
    /\ i <= Len(files)
    /\ FileReturns(normalize_file(i, files[i], current_section))
    /\ i' = i + 1
    /\ UNCHANGED <<pc, files, master, written, hdr_nd, x, num, num_nd>>

\* mutant: a file that cannot be normalized is skipped and the loop goes on
NormalizeFileRaise_skip ==
    /\ pc = "loop"
    /\ i <= Len(files)
    /\ FileRaises(normalize_file(i, files[i], current_section))
    /\ i' = i + 1
    /\ UNCHANGED <<pc, files, frames, master, written, hdr_nd, x, num, num_nd>>

\* one turn of the loop in which normalize_file raises: main has no handler
NormalizeFileRaise ==
    /\ pc = "loop"
    /\ i <= Len(files)
    /\ FileRaises(normalize_file(i, files[i], current_section))
    /\ pc' = "aborted"
    /\ UNCHANGED <<files, i, frames, master, written, hdr_nd, x, num, num_nd>>

\* after the loop: concat, reindex, to_csv
WriteMaster ==
    /\ pc = "loop"
    /\ i > Len(files)
    /\ master' = Table(Cols, IF frames # <<>> THEN Concat(frames) ELSE <<>>)
    /\ written' = TRUE
    /\ pc' = "done"
    /\ UNCHANGED <<files, i, frames, df, hdr, hdr_nd, col2date, records, origin,
                   current_section, x, num, num_nd>>

Next == ParseArgs \/ NormalizeFileOk \/ NormalizeFileRaise \/ WriteMaster

Spec == Init /\ [][Next]_vars

-----------------------------------------------------------------------------
(* Properties of the pipeline.  They read the grid df of the file          *)
(* normalized last, its records and, through origin, the cell each record  *)
(* was made from.                                                          *)

\* normalize_file has returned for df
Normalized == hdr.row >= 0

\* the rows of df below the header row
BelowHeader == (hdr.row + 1)..(NRows(df) - 1)

\* the records made from cell (r, c)
RecsAt(r, c) == {k \in 1..Len(records) : origin[k] = <<r, c>>}

\* the records made from row r
RecsOfRow(r) == {k \in 1..Len(records) : origin[k][1] = r}

\* a cell that holds something: not None, not NaN, not blank text
NonEmptyCell(v) == v.t \notin {"none", "nan"} /\ Strip(PyStr(v)) # <<>>

\* the text cells of row r left of the first date column that are not blank
LabelCols(r) ==
    {c \in 0..(hdr.first - 1) : At(df, r, c).t = "str" /\ Strip(At(df, r, c).s) # <<>>}

\* the label of row r, as an optional text
LabelOf(r) ==
    IF LabelCols(r) = {} THEN <<>> ELSE <<Strip(At(df, r, SetMax(LabelCols(r))).s)>>

\* row r carries a section-synonym label
IsSectionRow(r) == LabelOf(r) # <<>> /\ InSynonyms(Upper(LabelOf(r)[1]))

\* the rows from the first one below the header to r that carry a section label
SectionRowsTo(r) == {q \in (hdr.row + 1)..r : IsSectionRow(q)}

\* the section a record of row r is to carry
ExpectedSection(r) ==
    IF SectionRowsTo(r) = {} THEN <<>>
    ELSE <<Canonical(Upper(LabelOf(SetMax(SectionRowsTo(r)))[1]))>>

\* a value cell that is to be emitted: it holds something that is no date
Emittable(v) == NonEmptyCell(v) /\ ~is_date_like(v)

\* the text s is a number for the parser, with or without a trailing '%'
IsNumberText(s) ==
    FloatOf(Replace(Remove(Remove(IF EndsWith(s, "%") THEN DropLast(s) ELSE s, "NBSP"),
                           " "), ",", ".")).k = "num"

\* no row of g has three date-like cells
HeaderMissing(g) ==
    \A r \in 0..(NRows(g) - 1) :
        Cardinality({c \in 0..(NCols(g) - 1) : is_date_like(At(g, r, c))}) < 3

\* the records of row r that are totals: no date, is_total set
TotalRecsOfRow(r) ==
    {k \in RecsOfRow(r) : records[k].date = NaT /\ records[k].is_total}

\* C2: with a TOTAL column located, a row below the header yields exactly one
\* record with date = null and is_total = true when its TOTAL cell is
\* non-empty, whatever it emits for the dates, and none when that cell is
\* empty or NaN.
C2_TotalPerRow ==
    (Normalized /\ hdr.total # -1) =>
        \A r \in BelowHeader :
            Cardinality(TotalRecsOfRow(r)) =
                IF NonEmptyCell(At(df, r, hdr.total)) THEN 1 ELSE 0

\* one file in which a row gives a total and two dated records, another row
\* a total and no dated record
C2_Witness ==
    /\ Normalized
    /\ hdr.total # -1
    /\ \E r \in BelowHeader :
          Cardinality(TotalRecsOfRow(r)) = 1 /\ Cardinality(RecsOfRow(r)) = 3
    /\ \E r \in BelowHeader :
          Cardinality(TotalRecsOfRow(r)) = 1 /\ Cardinality(RecsOfRow(r)) = 1

\* C3: every record carries the canonical name of the latest section label
\* found between the header and its own row in the same file, and null when
\* there is none; nothing is inherited from a file normalized before.
C3_SectionInherited ==
    Normalized =>
        \A k \in 1..Len(records) : records[k].section = ExpectedSection(origin[k][1])

\* the first file of a batch ended in section BAR with records below the
\* title row; the records of the second file carry no section
C3_Witness ==
    /\ Normalized
    /\ Len(frames) = 2
    /\ \E k \in 1..Len(frames[1].rows) :
          /\ frames[1].rows[k].section = <<"BAR">>
          /\ frames[1].rows[k].metric_label # <<>>
    /\ records # <<>>
    /\ \A k \in 1..Len(records) : records[k].section = <<>>

\* what C4 says of the records besides the count per cell
RecordShape ==
    /\ \A k \in 1..Len(records) :
          /\ origin[k][1] \in BelowHeader
          /\ records[k].is_total <=> records[k].date = NaT
          /\ ~records[k].is_total =>
                /\ origin[k][2] \in DOMAIN col2date
                /\ records[k].date = col2date[origin[k][2]]
          /\ records[k].is_total => origin[k][2] = hdr.total
    /\ \A r \in BelowHeader : Cardinality(TotalRecsOfRow(r)) <= 1

\* C4 as stated: exactly one record per (row below the header, date column)
\* whose cell holds a non-empty value, and at most one more record per row,
\* for the totals column, with date = null and is_total = true.
C4_AsStated ==
    Normalized =>
        /\ RecordShape
        /\ \A r \in BelowHeader : \A c \in DOMAIN col2date :
              Cardinality(RecsAt(r, c)) = IF NonEmptyCell(At(df, r, c)) THEN 1 ELSE 0

\* C4 amended: exactly one record per (row below the header, mapped date
\* column) whose cell holds a non-empty value that is not itself date-like,
\* none for any other cell of a date column, and at most one more record per
\* row, for the totals column, with date = null and is_total = true.
C4_OneRecordPerValue ==
    Normalized =>
        /\ RecordShape
        /\ \A r \in BelowHeader : \A c \in DOMAIN col2date :
              Cardinality(RecsAt(r, c)) = IF Emittable(At(df, r, c)) THEN 1 ELSE 0

\* a row with a restated date in a mapped column, which gives no record,
\* beside a value that does
C4_Witness ==
    /\ Normalized
    /\ \E r \in BelowHeader : \E c, d \in DOMAIN col2date :
          /\ NonEmptyCell(At(df, r, c))
          /\ is_date_like(At(df, r, c))
          /\ RecsAt(r, c) = {}
          /\ Cardinality(RecsAt(r, d)) = 1

\* C5: a file without a header row stops the batch: the loop never gets
\* past it, it gives no frame, and the master table is never written, also
\* when files before it were normalized.
C5_AbortsBatch ==
    \A k \in 1..Len(files) :
        (files[k].suffix \in SupportedSuffixes /\ HeaderMissing(files[k].df)) =>
            /\ i <= k
            /\ Len(frames) < k
            /\ ~written
            /\ pc # "done"
            /\ (i = k /\ pc \notin {"start", "loop"}) => (pc = "aborted" /\ records = <<>>)

\* the second file has no header: the run is aborted after a first file that
\* gave records, and nothing is written
C5_Witness ==
    /\ pc = "aborted"
    /\ i = 2
    /\ HeaderMissing(files[2].df)
    /\ Len(frames) = 1
    /\ frames[1].rows # <<>>
    /\ ~written

\* C6: a run on zero input files ends with an empty master table that has
\* the eight canonical columns, and not with an error.
C6_EmptyBatch ==
    (files = <<>> /\ pc # "start") =>
        (pc = "done" /\ written /\ master = Table(Cols, <<>>))

\* C7: with a header located, no cell stops normalize_file or hides other
\* cells: a span header cell that is no date is only left out of col2date,
\* every emittable cell of a mapped column gives its record, and a text that
\* is no number gives value_raw = the trimmed text, value_num = null.
C7_CellsNeverFatal ==
    /\ pc = "aborted" =>
          (files[i].suffix \notin SupportedSuffixes \/ HeaderMissing(files[i].df))
    /\ Normalized =>
          /\ DOMAIN col2date =
                {c \in hdr.first..hdr.last : parse_date(At(df, hdr.row, c)) # NaT}
          /\ \A r \in BelowHeader : \A c \in DOMAIN col2date :
                Emittable(At(df, r, c)) =>
                    /\ Cardinality(RecsAt(r, c)) = 1
                    /\ ~IsNumberText(Strip(PyStr(At(df, r, c)))) =>
                          \A k \in RecsAt(r, c) :
                              /\ records[k].value_raw = Strip(PyStr(At(df, r, c)))
                              /\ records[k].value_num.k = "none"

\* a header with a span cell that is no date, and right of it a mapped
\* column with a text that is no number, emitted with a null value_num
C7_Witness ==
    /\ Normalized
    /\ \E c \in hdr.first..hdr.last :
          /\ parse_date(At(df, hdr.row, c)) = NaT
          /\ \E k \in 1..Len(records) :
                /\ origin[k][2] > c
                /\ ~records[k].is_total
                /\ records[k].value_num.k = "none"
                /\ records[k].value_raw = <<"a", "b", "c">>

====
